---- MODULE Spec2Model ----
(***************************************************************************)
(* Password strength analyzer: the four criteria (length, character        *)
(* complexity, repetition, dictionary), the PasswordChecker that runs them *)
(* and sums their scores, and the two front ends' rendering of the result. *)
(*                                                                         *)
(* A password is a sequence of character codes (the value of each char of  *)
(* the std::string), so that the character tests, the lower-casing and the *)
(* regular expression are computed on what the code sees.  The codes used  *)
(* are 7-bit ASCII, the range on which <cctype> is defined for a char.     *)
(***************************************************************************)
EXTENDS Integers, Sequences, FiniteSets, TLC

VARIABLES
    criteria,      \* PasswordChecker::criteria, built by the constructor
    password,      \* the argument of the call in progress (or of the last call)
    pc,            \* "idle", "loop" (inside PasswordChecker::check), "done", "shown"
    totalScore,    \* local of PasswordChecker::check
    results,       \* local of PasswordChecker::check
    calls,         \* names of the criteria whose check() this call has invoked
    ret,           \* the FullResult returned by the call
    display,       \* the lines the terminal front end printed for the call
    strengthText,  \* the label the browser front end showed for the call
    memo,          \* an earlier call on the same checker: its password and FullResult
    unit           \* the Result of a criterion's check() invoked on its own

vars == <<criteria, password, pc, totalScore, results, calls, ret, display,
          strengthText, memo, unit>>

-----------------------------------------------------------------------------
(* Bounds of the model.                                                    *)

\* Passwords are a prefix followed by every string of at most MaxLen
\* characters over Alphabet.
MaxLen == 3

\* As MaxLen, for the two-call model (SpecDet) over DetAlphabet.
MaxDetLen == 3

-----------------------------------------------------------------------------
(* Characters and strings.                                                 *)

\* <cctype> in the "C" locale (the program never calls setlocale).
isupper(c) == c \in 65..90
islower(c) == c \in 97..122
isdigit(c) == c \in 48..57
tolower(c) == IF isupper(c) THEN c + 32 ELSE c

\* The literal "!@#$%^&*()-+={}[]|\\:;\"'<>,.?/`~" of TypeCriterion::check.
specialChars ==
    << 33, 64, 35, 36, 37, 94, 38, 42, 40, 41, 45, 43, 61, 123, 125, 91, 93,
       124, 92, 58, 59, 34, 39, 60, 62, 44, 46, 63, 47, 96, 126 >>

\* string(...).find(c) != string::npos
find_char(s, c) == \E i \in 1..Len(s) : s[i] = c

\* lowerPassword.find(weak) != string::npos
find_str(s, w) ==
    \E i \in 1..(Len(s) - Len(w) + 1) : SubSeq(s, i, i + Len(w) - 1) = w

\* transform(begin, end, begin, ::tolower)
transform_tolower(s) == [i \in 1..Len(s) |-> tolower(s[i])]

\* std::to_string of a size_t.  A size_t is kept as the integer d it holds,
\* and a negative d stands for the wrapped value 2^64 + d
\* (2^64 = 18446744073709551616); the result is the sequence of its decimal
\* digits.
digits == <<"0", "1", "2", "3", "4", "5", "6", "7", "8", "9">>

RECURSIVE decimal(_)
decimal(n) ==
    IF n < 10 THEN <<digits[n + 1]>>
    ELSE decimal(n \div 10) \o <<digits[(n % 10) + 1]>>

to_string(d) ==
    IF d >= 0 THEN decimal(d)
    ELSE <<"1", "8", "4", "4", "6", "7", "4", "4", "0", "7", "3", "7", "0",
           "9", "5", "5">> \o decimal(1616 + d)

\* The operands exchanged.
size_sub_swapped(a, b) == b - a

\* minLength - password.length(): int converted to size_t, subtraction
\* modulo 2^64 (see to_string for the representation of the wrapped value).
size_sub(a, b) == a - b

-----------------------------------------------------------------------------
(* LengthCriterion                                                          *)

minLength == 8

\* `>` for `>=`.
LengthCriterion_isMet_gt(pw) == Len(pw) > minLength

\* bool isMet = password.length() >= minLength;
LengthCriterion_isMet(pw) == Len(pw) >= minLength

LengthCriterion_check(self, pw) ==
    LET isMet == LengthCriterion_isMet(pw)
        message ==
            IF isMet THEN <<"Great! Password is 8+ characters long.">>
            ELSE <<"Needs ">> \o to_string(size_sub(minLength, Len(pw)))
                 \o <<" more character(s).">>
    IN  [met |-> isMet, message |-> message,
         score |-> IF isMet THEN self.scoreValue ELSE 0]

-----------------------------------------------------------------------------
(* TypeCriterion                                                            *)

noTypes ==
    [hasUpper |-> FALSE, hasLower |-> FALSE, hasDigit |-> FALSE,
     hasSpecial |-> FALSE]

\* One iteration of `for (char c : password)`: the if / else-if chain.
classify(flags, c) ==
    IF isupper(c) THEN [flags EXCEPT !.hasUpper = TRUE]
    ELSE IF islower(c) THEN [flags EXCEPT !.hasLower = TRUE]
    ELSE IF isdigit(c) THEN [flags EXCEPT !.hasDigit = TRUE]
    ELSE IF find_char(specialChars, c) THEN [flags EXCEPT !.hasSpecial = TRUE]
    ELSE flags

RECURSIVE classifyAll(_, _, _)
classifyAll(pw, i, flags) ==
    IF i > Len(pw) THEN flags
    ELSE classifyAll(pw, i + 1, classify(flags, pw[i]))

b2i(b) == IF b THEN 1 ELSE 0

\* The vector `missing`, in push_back order.
missingTypes(f) ==
    (IF f.hasUpper THEN <<>> ELSE <<"Uppercase">>)
    \o (IF f.hasLower THEN <<>> ELSE <<"Lowercase">>)
    \o (IF f.hasDigit THEN <<>> ELSE <<"Digit">>)
    \o (IF f.hasSpecial THEN <<>> ELSE <<"Special Char">>)

\* message += missing[i] + (i < missing.size() - 1 ? ", " : ".")
RECURSIVE joinMissing(_, _)
joinMissing(missing, i) ==
    IF i > Len(missing) THEN <<>>
    ELSE <<missing[i], IF i < Len(missing) THEN ", " ELSE ".">>
         \o joinMissing(missing, i + 1)

\* Rounding to nearest for floor.
awardedScore_round(scoreValue, typesMet) == (scoreValue * typesMet + 2) \div 4

\* All or nothing, as the other three criteria score.
awardedScore_allornothing(scoreValue, typesMet) ==
    IF typesMet = 4 THEN scoreValue ELSE 0

\* floor(scoreValue * (static_cast<double>(typesMet) / 4.0)): typesMet / 4.0
\* is one of 0, 0.25, 0.5, 0.75, 1, all exact doubles, and so is the product.
awardedScore(scoreValue, typesMet) == (scoreValue * typesMet) \div 4

TypeCriterion_check(self, pw) ==
    LET f == classifyAll(pw, 1, noTypes)
        typesMet == b2i(f.hasUpper) + b2i(f.hasLower) + b2i(f.hasDigit)
                    + b2i(f.hasSpecial)
        isMet == typesMet = 4
        message ==
            IF isMet THEN <<"Excellent! All 4 character types are present.">>
            ELSE <<"Missing: ">> \o joinMissing(missingTypes(f), 1)
    IN  [met |-> isMet, message |-> message,
         score |-> awardedScore(self.scoreValue, typesMet)]

-----------------------------------------------------------------------------
(* RepetitionCriterion                                                      *)

\* In the ECMAScript grammar std::regex uses by default (and in script.js),
\* '.' matches every character but the line terminators LF and CR.
lineTerminators == {10, 13}
matchesDot(c) == c \notin lineTerminators

\* regex_search(password, regex(R"((.)\1\1)")): some position holds a
\* character '.' matches, followed by two copies of it.
regex_search(pw) ==
    \E i \in 1..(Len(pw) - 2) :
        matchesDot(pw[i]) /\ pw[i + 1] = pw[i] /\ pw[i + 2] = pw[i]

RepetitionCriterion_check(self, pw) ==
    LET isWeak == regex_search(pw)
        isMet == ~isWeak
    IN  [met |-> isMet,
         message |->
            IF isMet THEN <<"No obvious triple repetitions found.">>
            ELSE <<"Warning: Contains three or more identical characters in a row (e.g., 'aaa').">>,
         score |-> IF isMet THEN self.scoreValue ELSE 0]

-----------------------------------------------------------------------------
(* DictionaryCriterion                                                      *)

\* The initializer list of weakList: "password", "123456", "qwerty", "admin",
\* "qazwsx", "12345678", "abc", "god", "user", "access".
weakListInit ==
    << <<112, 97, 115, 115, 119, 111, 114, 100>>,
       <<49, 50, 51, 52, 53, 54>>,
       <<113, 119, 101, 114, 116, 121>>,
       <<97, 100, 109, 105, 110>>,
       <<113, 97, 122, 119, 115, 120>>,
       <<49, 50, 51, 52, 53, 54, 55, 56>>,
       <<97, 98, 99>>,
       <<103, 111, 100>>,
       <<117, 115, 101, 114>>,
       <<97, 99, 99, 101, 115, 115>> >>

\* const unordered_set<string> weakList
weakList == {weakListInit[i] : i \in 1..Len(weakListInit)}

\* The orders in which `for (const string& weak : weakList)` may visit the
\* unordered set: every rotation of the initializer list and its reverse, so
\* that each word comes first in some order and each pair of words is visited
\* in both orders.
rotation(k) ==
    [i \in 1..Len(weakListInit) |->
        weakListInit[((i + k - 1) % Len(weakListInit)) + 1]]
reversed(s) == [i \in 1..Len(s) |-> s[Len(s) + 1 - i]]
weakOrders ==
    {rotation(k) : k \in 1..Len(weakListInit)}
    \cup {reversed(rotation(k)) : k \in 1..Len(weakListInit)}

\* The loop with its break: the position in `order` of the first word found
\* in lowerPassword, 0 when the loop ends without a hit.
RECURSIVE firstWeak(_, _, _)
firstWeak(lowerPassword, order, i) ==
    IF i > Len(order) THEN 0
    ELSE IF find_str(lowerPassword, order[i]) THEN i
    ELSE firstWeak(lowerPassword, order, i + 1)

\* The transform left out.
lowerPassword_asis(pw) == pw

\* string lowerPassword = password; transform(..., ::tolower);
lowerPasswordOf(pw) == transform_tolower(pw)

\* The message naming the word the loop stopped at.
DictionaryCriterion_check_leak(self, pw, order) ==
    LET hit == firstWeak(lowerPasswordOf(pw), order, 1)
        isMet == hit = 0
    IN  [met |-> isMet,
         message |->
            IF isMet THEN <<"Password does not contain common dictionary words.">>
            ELSE <<"Warning: Contains a common or dictionary word/sequence.", order[hit]>>,
         score |-> IF isMet THEN self.scoreValue ELSE 0]

DictionaryCriterion_check(self, pw, order) ==
    LET isWeak == firstWeak(lowerPasswordOf(pw), order, 1) # 0
        isMet == ~isWeak
    IN  [met |-> isMet,
         message |->
            IF isMet THEN <<"Password does not contain common dictionary words.">>
            ELSE <<"Warning: Contains a common or dictionary word/sequence.">>,
         score |-> IF isMet THEN self.scoreValue ELSE 0]

-----------------------------------------------------------------------------
(* PasswordCriterion and PasswordChecker                                    *)

\* The four constructors: PasswordCriterion(name, scoreValue).
newLengthCriterion ==
    [kind |-> "Length", name |-> "Minimum Length (8 characters)", scoreValue |-> 25]
newTypeCriterion ==
    [kind |-> "Type", name |-> "Character Complexity (4 types)", scoreValue |-> 50]
newRepetitionCriterion ==
    [kind |-> "Repetition", name |-> "No Repetitive Sequences (AAA)", scoreValue |-> 15]
newDictionaryCriterion ==
    [kind |-> "Dictionary", name |-> "Not a Common Word/Pattern", scoreValue |-> 10]

\* PasswordChecker(): four push_backs.
PasswordChecker_new ==
    <<newLengthCriterion, newTypeCriterion, newRepetitionCriterion,
      newDictionaryCriterion>>

\* The virtual call criterion->check(password); `order` is the order in which
\* the dictionary criterion's unordered set is visited during the call.
PasswordCriterion_check(self, pw, order) ==
    CASE self.kind = "Length" -> LengthCriterion_check(self, pw)
      [] self.kind = "Type" -> TypeCriterion_check(self, pw)
      [] self.kind = "Repetition" -> RepetitionCriterion_check(self, pw)
      [] self.kind = "Dictionary" -> DictionaryCriterion_check(self, pw, order)

min(a, b) == IF a < b THEN a ELSE b


\* `=` for `+=`.
accumulate_assign(total, score) == score

\* totalScore += result.score;
accumulate(total, score) == total + score

\* Insertion at the front.
push_front(v, r) == <<r>> \o v

\* results.push_back(result);
push_back(v, r) == Append(v, r)

\* The early return left out.
empty_never(pw) == FALSE

\* password.empty()
empty(pw) == Len(pw) = 0

\* The value of `ret` while no call has returned.
noResult == [score |-> -1, results |-> <<>>]

-----------------------------------------------------------------------------
(* Inputs.                                                                  *)

\* 'a', 'b', 'c', 'A', '1', '!', ' ' and CR: the letters of the weak word
\* "abc", an uppercase letter, a digit, a special character, and two
\* characters of no class, one of them a line terminator.
Alphabet == {97, 98, 99, 65, 49, 33, 32, 13}

\* As Alphabet, for the two-call model: 'a', '1'.
DetAlphabet == {97, 49}

Strings(A, n) == UNION {[1..k -> A] : k \in 0..n}

\* "", "Xy7#K" (short of 8 characters by 3, holding a character of every
\* class), "12345678" (8 characters, holding two weak words) and "ABC" (a
\* weak word in upper case).
Prefixes ==
    { <<>>, <<88, 121, 55, 35, 75>>, <<49, 50, 51, 52, 53, 54, 55, 56>>,
      <<65, 66, 67>> }

Passwords == {p \o s : p \in Prefixes, s \in Strings(Alphabet, MaxLen)}

DetPasswords == {p \o s : p \in Prefixes, s \in Strings(DetAlphabet, MaxDetLen)}

-----------------------------------------------------------------------------
(* The state machine.                                                       *)

Init ==
    /\ criteria = PasswordChecker_new
    /\ password = <<>>
    /\ pc = "idle"
    /\ totalScore = 0
    /\ results = <<>>
    /\ calls = <<>>
    /\ ret = noResult
    /\ display = <<>>
    /\ strengthText = ""
    /\ memo = <<>>
    /\ unit = <<>>

\* Bookkeeping of the remembered call: `others` tells that check() has since
\* been called on another password.
noteCall(m, pw) ==
    IF Len(m) = 1 /\ m[1].password # pw
    THEN <<[m[1] EXCEPT !.others = TRUE]>>
    ELSE m

\* PasswordChecker::check on an empty password: return { 0, {} }.
\* S is the set the caller's password is drawn from, and `from` the places
\* the caller may be at when it calls.
CheckEmpty(S, from) ==
    /\ pc \in from
    /\ \E pw \in S :
          /\ empty(pw)
          /\ password' = pw
          /\ memo' = noteCall(memo, pw)
    /\ ret' = [score |-> 0, results |-> <<>>]
    /\ pc' = "done"
    /\ totalScore' = 0
    /\ results' = <<>>
    /\ calls' = <<>>
    /\ display' = <<>>
    /\ strengthText' = ""
    /\ UNCHANGED <<criteria, unit>>

\* PasswordChecker::check on any other password, up to the loop:
\* int totalScore = 0; vector<Result> results;
CheckBegin(S, from) ==
    /\ pc \in from
    /\ \E pw \in S :
          /\ ~empty(pw)
          /\ password' = pw
          /\ memo' = noteCall(memo, pw)
    /\ ret' = noResult
    /\ pc' = "loop"
    /\ totalScore' = 0
    /\ results' = <<>>
    /\ calls' = <<>>
    /\ display' = <<>>
    /\ strengthText' = ""
    /\ UNCHANGED <<criteria, unit>>

\* One iteration of `for (const auto& criterion : criteria)`.
LoopStep ==
    /\ pc = "loop"
    /\ Len(calls) < Len(criteria)
    /\ LET criterion == criteria[Len(calls) + 1] IN
       \E order \in weakOrders :
          LET result == PasswordCriterion_check(criterion, password, order) IN
          /\ totalScore' = accumulate(totalScore, result.score)
          /\ results' = push_back(results, result)
          /\ calls' = Append(calls, criterion.name)
    /\ UNCHANGED <<criteria, password, pc, ret, display, strengthText, memo, unit>>

\* return { min(totalScore, 100), results };
Return ==
    /\ pc = "loop"
    /\ Len(calls) = Len(criteria)
    /\ ret' = [score |-> min(totalScore, 100), results |-> results]
    /\ pc' = "done"
    /\ UNCHANGED <<criteria, password, totalScore, results, calls, display,
                   strengthText, memo, unit>>

\* main(): the report of a non-empty password (an empty one ends main before
\* the checker is built): one line per result, named by getCriteria()[i].
RenderCli ==
    /\ pc = "done"
    /\ ~empty(password)
    /\ display' =
          [i \in 1..Len(ret.results) |->
              [pass |-> ret.results[i].met,
               name |-> criteria[i].name,
               message |-> ret.results[i].message]]
    /\ pc' = "shown"
    /\ UNCHANGED <<criteria, password, totalScore, results, calls, ret,
                   strengthText, memo, unit>>

\* script.js, checkPassword(): the label chosen from the score.
strengthTextOf(percentage) ==
    IF percentage >= 75 THEN "Very Strong"
    ELSE IF percentage >= 50 THEN "Strong"
    ELSE IF percentage > 0 THEN "Medium"
    ELSE "N/A"

RenderWeb ==
    /\ pc = "done"
    /\ strengthText' = strengthTextOf(ret.score)
    /\ pc' = "shown"
    /\ UNCHANGED <<criteria, password, totalScore, results, calls, ret,
                   display, memo, unit>>

\* One run of a front end: a password is read and checked once, and the
\* result is shown.
Next ==
    \/ CheckEmpty(Passwords, {"idle"})
    \/ CheckBegin(Passwords, {"idle"})
    \/ LoopStep
    \/ Return
    \/ RenderCli
    \/ RenderWeb

Spec == Init /\ [][Next]_vars

-----------------------------------------------------------------------------
(* Two calls on one checker: a returned call may be remembered, and is then *)
(* compared with every later call on the same password.                     *)

Remember ==
    /\ pc = "done"
    /\ memo = <<>>
    /\ memo' = <<[password |-> password, ret |-> ret, others |-> FALSE]>>
    /\ UNCHANGED <<criteria, password, pc, totalScore, results, calls, ret,
                   display, strengthText, unit>>

NextDet ==
    \/ CheckEmpty(DetPasswords, {"idle", "done"})
    \/ CheckBegin(DetPasswords, {"idle", "done"})
    \/ LoopStep
    \/ Return
    \/ Remember

SpecDet == Init /\ [][NextDet]_vars

-----------------------------------------------------------------------------
(* Each criterion's check() applied on its own to any password, the empty   *)
(* one included.                                                            *)

InitUnit ==
    /\ criteria = PasswordChecker_new
    /\ password \in Passwords
    /\ pc = "idle"
    /\ totalScore = 0
    /\ results = <<>>
    /\ calls = <<>>
    /\ ret = noResult
    /\ display = <<>>
    /\ strengthText = ""
    /\ memo = <<>>
    /\ unit = <<>>

UnitCheck(i) ==
    /\ unit = <<>>
    /\ \E order \in weakOrders :
          unit' = <<[kind |-> criteria[i].kind,
                     result |-> PasswordCriterion_check(criteria[i], password, order)]>>
    /\ UNCHANGED <<criteria, password, pc, totalScore, results, calls, ret,
                   display, strengthText, memo>>

UnitLength == UnitCheck(1)
UnitType == UnitCheck(2)
UnitRepetition == UnitCheck(3)
UnitDictionary == UnitCheck(4)

NextUnit ==
    \/ UnitLength
    \/ UnitType
    \/ UnitRepetition
    \/ UnitDictionary

SpecUnit == InitUnit /\ [][NextUnit]_vars

-----------------------------------------------------------------------------
(* What the claims speak of, stated on the password itself.                 *)

returned == pc \in {"done", "shown"}

RECURSIVE SumScores(_)
SumScores(rs) == IF rs = <<>> THEN 0 ELSE Head(rs).score + SumScores(Tail(rs))

HasUppercase(pw) == \E i \in 1..Len(pw) : pw[i] \in 65..90
HasLowercase(pw) == \E i \in 1..Len(pw) : pw[i] \in 97..122
HasDigit(pw) == \E i \in 1..Len(pw) : pw[i] \in 48..57
HasSpecial(pw) ==
    \E i \in 1..Len(pw) : \E k \in 1..Len(specialChars) : pw[i] = specialChars[k]

\* Three equal characters in a row, whatever the character.
HasTripleRun(pw) ==
    \E i \in 1..Len(pw) : i + 2 <= Len(pw) /\ pw[i] = pw[i + 1] /\ pw[i] = pw[i + 2]

\* Character ch lower-cases to the character w of a weak word.
LowersTo(ch, w) == ch = w \/ (w \in 97..122 /\ ch = w - 32)

\* The lower-cased password holds the word at some position.
HoldsWord(pw, word) ==
    \E off \in 0..Len(pw) :
        /\ off + Len(word) <= Len(pw)
        /\ \A k \in 1..Len(word) : LowersTo(pw[off + k], word[k])

HoldsWeakWord(pw) == \E word \in weakList : HoldsWord(pw, word)

Strong(pw) ==
    /\ Len(pw) >= 8
    /\ HasUppercase(pw) /\ HasLowercase(pw) /\ HasDigit(pw) /\ HasSpecial(pw)
    /\ ~HasTripleRun(pw)
    /\ ~HoldsWeakWord(pw)

-----------------------------------------------------------------------------
(* The claims.                                                              *)

\* C1: every returned total score lies in 0..100, and for a non-empty
\* password it is min(100, sum of the scores of the returned verdicts).
C1_TotalIsClampedSum ==
    returned =>
        /\ ret.score \in 0..100
        /\ Len(password) > 0 =>
              LET sum == SumScores(ret.results) IN
              ret.score = IF sum > 100 THEN 100 ELSE sum

C1_Witness ==
    pc = "done" /\ Len(password) > 0 /\ Len(ret.results) = 4 /\ ret.score = 52

\* C2: check on the empty password returns total score 0 and no verdicts,
\* and invokes the check of no criterion.
C2_EmptyShortCircuit ==
    /\ pc = "loop" => Len(password) > 0
    /\ (returned /\ Len(password) = 0) =>
          /\ ret.score = 0
          /\ ret.results = <<>>
          /\ calls = <<>>

C2_Witness == pc = "done" /\ Len(password) = 0 /\ ret.score = 0

\* C3: a password of 8 or more characters with an uppercase letter, a
\* lowercase letter, a digit and a special character, no run of three equal
\* characters and no weak word in its lower-cased form scores exactly 100,
\* all four verdicts met.
C3_StrongScores100 ==
    (returned /\ Strong(password)) =>
        /\ ret.score = 100
        /\ Len(ret.results) = 4
        /\ \A i \in 1..4 : ret.results[i].met

C3_Witness == pc = "done" /\ Strong(password) /\ Len(password) = 8

\* The Result of criterion `kind` applied on its own, when there is one.
unitOf(kind) == Len(unit) = 1 /\ unit[1].kind = kind

\* C4: RepetitionCriterion::check returns met with score 15 exactly when no
\* three consecutive characters of the password are equal, whatever the
\* character (whitespace and line terminators included), and otherwise
\* not met with score 0.
C4_RepetitionIffNoTripleRun ==
    unitOf("Repetition") =>
        LET r == unit[1].result IN
        /\ r.met <=> ~HasTripleRun(password)
        /\ r.score = IF r.met THEN 15 ELSE 0

\* The number of the four classes that have a character in the password.
TypesPresent(pw) ==
    Cardinality({c \in {"Uppercase", "Lowercase", "Digit", "Special Char"} :
        \/ c = "Uppercase" /\ HasUppercase(pw)
        \/ c = "Lowercase" /\ HasLowercase(pw)
        \/ c = "Digit" /\ HasDigit(pw)
        \/ c = "Special Char" /\ HasSpecial(pw)})

\* C5: with typesMet the number of classes (uppercase, lowercase, digit,
\* special) that have a character in the password, TypeCriterion::check
\* returns met iff typesMet = 4 and the score 0, 12, 25, 37 or 50 for
\* typesMet 0, 1, 2, 3, 4 (floor(50 * typesMet / 4)); characters of no class
\* change nothing.
C5_TypeScoreIsFloor ==
    unitOf("Type") =>
        LET r == unit[1].result
            typesMet == TypesPresent(password)
        IN  /\ r.met <=> typesMet = 4
            /\ r.score = <<0, 12, 25, 37, 50>>[typesMet + 1]
            /\ 4 * r.score <= 50 * typesMet
            /\ 50 * typesMet < 4 * (r.score + 1)

C5_Witness ==
    /\ unitOf("Type")
    /\ unit[1].result.score = 37
    /\ \E i \in 1..Len(password) : password[i] \in {32, 13}

\* C6: DictionaryCriterion::check returns met with score 10 exactly when the
\* lower-cased password holds none of the ten weak words as a contiguous
\* substring at any position, and otherwise not met with score 0.
C6_DictionaryIffNoWeakWord ==
    unitOf("Dictionary") =>
        LET r == unit[1].result IN
        /\ Cardinality(weakList) = 10
        /\ r.met <=> ~HoldsWeakWord(password)
        /\ r.score = IF r.met THEN 10 ELSE 0

C6_Witness ==
    /\ unitOf("Dictionary")
    /\ ~unit[1].result.met
    /\ password = <<65, 98, 99>>

\* C7: LengthCriterion::check returns met with score 25 iff the password has
\* at least 8 characters, else not met with score 0; when not met, the
\* number in the message is 8 - length, written in decimal, and lies in 1..8,
\* for every length, 0 and lengths above 8 included.
C7_LengthAndShortfall ==
    unitOf("Length") =>
        LET r == unit[1].result
            n == 8 - Len(password)
        IN  /\ r.met <=> Len(password) >= 8
            /\ r.score = IF r.met THEN 25 ELSE 0
            /\ ~r.met =>
                  /\ n \in 1..8
                  /\ r.message =
                        <<"Needs ", <<"1", "2", "3", "4", "5", "6", "7", "8">>[n],
                          " more character(s).">>

C7_Witness ==
    /\ unitOf("Length")
    /\ Len(password) = 0
    /\ unit[1].result.message = <<"Needs ", "8", " more character(s).">>

\* C8: a call of check returns the same FullResult as an earlier call on the
\* same password on the same checker, whatever calls came between and in
\* whatever order each call visited the weak words; the checker's criteria
\* are never changed.
C8_SameInputSameReport ==
    /\ criteria = PasswordChecker_new
    /\ (pc = "done" /\ Len(memo) = 1 /\ memo[1].password = password) =>
          ret = memo[1].ret

C8_Witness ==
    /\ pc = "done"
    /\ Len(memo) = 1
    /\ memo[1].password = password
    /\ memo[1].others
    /\ password = <<49, 50, 51, 52, 53, 54, 55, 56>>
    /\ ret = memo[1].ret

-----------------------------------------------------------------------------
(* Order of evaluation.                                                     *)

CriteriaKinds == <<"Length", "Type", "Repetition", "Dictionary">>
CriteriaNames ==
    <<"Minimum Length (8 characters)", "Character Complexity (4 types)",
      "No Repetitive Sequences (AAA)", "Not a Common Word/Pattern">>

\* The verdicts criterion i can give on pw.
VerdictsOf(i, pw) ==
    {PasswordCriterion_check(criteria[i], pw, order) : order \in weakOrders}

\* C9: on a non-empty password check invokes each of the four criteria once,
\* in the order Length, Complexity, Repetition, Dictionary; the returned list
\* has four entries, the i-th the verdict of the i-th criterion, so that the
\* terminal front end prints it under that criterion's name.
C9_EachCriterionOnceInOrder ==
    /\ \A i \in 1..4 :
          criteria[i].kind = CriteriaKinds[i] /\ criteria[i].name = CriteriaNames[i]
    /\ pc = "loop" =>
          /\ calls = SubSeq(CriteriaNames, 1, Len(calls))
          /\ Len(results) = Len(calls)
    /\ (returned /\ Len(password) > 0) =>
          /\ calls = CriteriaNames
          /\ Len(ret.results) = 4
          /\ \A i \in 1..4 : ret.results[i] \in VerdictsOf(i, password)
    /\ (pc = "shown" /\ display # <<>>) =>
          /\ Len(display) = 4
          /\ \A i \in 1..4 :
                /\ display[i].name = CriteriaNames[i]
                /\ \E v \in VerdictsOf(i, password) :
                      display[i].pass = v.met /\ display[i].message = v.message

C9_Witness ==
    /\ pc = "shown"
    /\ Len(display) = 4
    /\ display[1].pass /\ ~display[2].pass /\ display[3].pass /\ ~display[4].pass

-----------------------------------------------------------------------------
(* The least score of a non-empty password.                                 *)

\* C10 as stated: the total score is 0 only for the empty password and at
\* least 10 otherwise, a password that fails the dictionary rule holding a
\* lowercase letter or a digit and so earning at least 12 from the complexity
\* rule, and one that passes it earning 10; the browser front end shows
\* "N/A" only for the empty password and never shows "Weak".
C10_AsStated ==
    /\ returned => (ret.score = 0 <=> Len(password) = 0)
    /\ (returned /\ Len(password) > 0) =>
          /\ ret.score >= 10
          /\ ret.results[4].met => ret.results[4].score = 10
          /\ ~ret.results[4].met =>
                /\ HasLowercase(password) \/ HasDigit(password)
                /\ ret.results[2].score >= 12
    /\ (pc = "shown" /\ strengthText # "") =>
          /\ strengthText = "N/A" <=> Len(password) = 0
          /\ strengthText # "Weak"

\* C10 as amended: as C10_AsStated, but a password that fails the dictionary
\* rule holds a letter of either case or a digit.
C10_LeastScoreIs10 ==
    /\ returned => (ret.score = 0 <=> Len(password) = 0)
    /\ (returned /\ Len(password) > 0) =>
          /\ ret.score >= 10
          /\ ret.results[4].met => ret.results[4].score = 10
          /\ ~ret.results[4].met =>
                /\ HasUppercase(password) \/ HasLowercase(password)
                   \/ HasDigit(password)
                /\ ret.results[2].score >= 12
    /\ (pc = "shown" /\ strengthText # "") =>
          /\ strengthText = "N/A" <=> Len(password) = 0
          /\ strengthText # "Weak"

C10_Witness ==
    /\ pc = "shown"
    /\ strengthText = "Medium"
    /\ ret.score = 10
    /\ password = <<32, 32, 32>>

====
